---------------------------- MODULE Spec2Model ----------------------------
(***************************************************************************)
(* Model of the concurrent sitemap crawler (buildSitemap with a worker     *)
(* pool, a bounded job channel, a WaitGroup of outstanding jobs, a         *)
(* visited set and the URL resolution / filtering policy).                 *)
(*                                                                         *)
(* Strings are TLA+ strings; a character is a one-character string.        *)
(* net/url is modelled on inputs without userinfo, percent-escapes,        *)
(* control characters and "." / ".." path segments.                        *)
(***************************************************************************)
EXTENDS Integers, Sequences, FiniteSets, TLC

(***************************************************************************)
(* Bounds of the model.                                                    *)
(***************************************************************************)
MaxWorkers == 2
MaxDepthBound == 3
MaxItems == 2
MaxTicks == 1

(***************************************************************************)
(* strings package                                                         *)
(***************************************************************************)
Ch(s, i) == SubSeq(s, i, i)

Uppers == "ABCDEFGHIJKLMNOPQRSTUVWXYZ"
Lowers == "abcdefghijklmnopqrstuvwxyz"
DigitLike == "0123456789+-."

UpperSet == {Ch(Uppers, i) : i \in 1..Len(Uppers)}
LetterSet == UpperSet \cup {Ch(Lowers, i) : i \in 1..Len(Lowers)}
DigitLikeSet == {Ch(DigitLike, i) : i \in 1..Len(DigitLike)}

\* the least element of a set of indices, 0 for the empty set
FirstOf(S) == IF S = {} THEN 0 ELSE CHOOSE i \in S : \A j \in S : i <= j

\* the greatest element of a set of indices, 0 for the empty set
LastOf(S) == IF S = {} THEN 0 ELSE CHOOSE i \in S : \A j \in S : i >= j

\* first index of the one-character string c in s, 0 when absent
Index(s, c) == FirstOf({i \in 1..Len(s) : Ch(s, i) = c})

LastIndex(s, c) == LastOf({i \in 1..Len(s) : Ch(s, i) = c})

Contains(s, c) == \E i \in 1..Len(s) : Ch(s, i) = c

HasPrefix(s, p) == Len(s) >= Len(p) /\ SubSeq(s, 1, Len(p)) = p

LowerCh(c) == IF c \in UpperSet THEN Ch(Lowers, Index(Uppers, c)) ELSE c

RECURSIVE ToLower(_)
ToLower(s) == IF s = "" THEN "" ELSE LowerCh(Ch(s, 1)) \o ToLower(Tail(s))

EqualFold(s, t) == ToLower(s) = ToLower(t)

\* strings.Cut(s, sep) for a one-character separator
CutBefore(s, c) == IF Contains(s, c) THEN SubSeq(s, 1, Index(s, c) - 1) ELSE s
CutAfter(s, c) == IF Contains(s, c) THEN SubSeq(s, Index(s, c) + 1, Len(s)) ELSE ""

(***************************************************************************)
(* path.Ext: the suffix beginning at the final dot in the final            *)
(* slash-separated element of the path, "" when there is no dot.           *)
(***************************************************************************)
PathExt(p) ==
  IF LastIndex(p, ".") > LastIndex(p, "/") THEN SubSeq(p, LastIndex(p, "."), Len(p)) ELSE ""

(***************************************************************************)
(* net/url: a parsed URL is a record; ok = FALSE is a parse error.         *)
(***************************************************************************)
NoURL == [ok |-> FALSE, scheme |-> "", opaque |-> "", host |-> "", path |-> "",
          query |-> "", fragment |-> "", omitHost |-> FALSE]

IsLetter(c) == c \in LetterSet

\* index of the first character that cannot belong to a scheme, Len + 1 if none
SchemeEndOf(s, S) == IF S = {} THEN Len(s) + 1 ELSE FirstOf(S)

SchemeEnd(s) ==
  SchemeEndOf(s, {i \in 1..Len(s) : ~IsLetter(Ch(s, i)) /\ Ch(s, i) \notin DigitLikeSet})

\* getScheme, from the index k of the first non-scheme character: [err, scheme, rest]
GetSchemeAt(s, k) ==
  IF s = "" THEN [err |-> FALSE, scheme |-> "", rest |-> s]
  ELSE IF Ch(s, 1) \in DigitLikeSet THEN [err |-> FALSE, scheme |-> "", rest |-> s]
  ELSE IF k > Len(s) THEN [err |-> FALSE, scheme |-> "", rest |-> s]
  ELSE IF Ch(s, k) # ":" THEN [err |-> FALSE, scheme |-> "", rest |-> s]
  ELSE IF k = 1 THEN [err |-> TRUE, scheme |-> "", rest |-> ""]
  ELSE [err |-> FALSE, scheme |-> SubSeq(s, 1, k - 1), rest |-> SubSeq(s, k + 1, Len(s))]

GetScheme(s) == GetSchemeAt(s, SchemeEnd(s))

\* parse, the authority case: "//" host path
ParseAuthority(scheme, host, authRest, query, frag) ==
  [ok |-> TRUE, scheme |-> scheme, opaque |-> "", host |-> host,
   path |-> SubSeq(authRest, Len(host) + 1, Len(authRest)),
   query |-> query, fragment |-> frag, omitHost |-> FALSE]

\* parse, after the scheme and the query are split off
ParseRest(scheme, rest, query, frag) ==
  IF ~HasPrefix(rest, "/") /\ scheme # ""
    THEN [ok |-> TRUE, scheme |-> scheme, opaque |-> rest, host |-> "", path |-> "",
          query |-> query, fragment |-> frag, omitHost |-> FALSE]
  ELSE IF ~HasPrefix(rest, "/") /\ Contains(CutBefore(rest, "/"), ":")
    THEN NoURL
  ELSE IF HasPrefix(rest, "//") /\ (scheme # "" \/ ~HasPrefix(rest, "///"))
    THEN ParseAuthority(scheme, CutBefore(SubSeq(rest, 3, Len(rest)), "/"),
                        SubSeq(rest, 3, Len(rest)), query, frag)
  ELSE [ok |-> TRUE, scheme |-> scheme, opaque |-> "", host |-> "", path |-> rest,
        query |-> query, fragment |-> frag,
        omitHost |-> (scheme # "" /\ HasPrefix(rest, "/"))]

ParseScheme(gs, frag) ==
  IF gs.err THEN NoURL
  ELSE ParseRest(ToLower(gs.scheme), CutBefore(gs.rest, "?"), CutAfter(gs.rest, "?"), frag)

\* url.Parse
Parse(rawURL) == ParseScheme(GetScheme(CutBefore(rawURL, "#")), CutAfter(rawURL, "#"))

\* (*URL).String
String(u) ==
  LET pre == IF u.scheme # "" THEN u.scheme \o ":" ELSE ""
      auth == IF (u.scheme # "" \/ u.host # "")
                 /\ ~(u.omitHost /\ u.host = "")
                 /\ (u.host # "" \/ u.path # "")
              THEN "//" \o u.host ELSE ""
      slash == IF u.path # "" /\ Ch(u.path, 1) # "/" /\ u.host # "" THEN "/" ELSE ""
      dot == IF pre \o auth = "" /\ Contains(CutBefore(u.path, "/"), ":")
             THEN "./" ELSE ""
      body == IF u.opaque # "" THEN pre \o u.opaque
              ELSE pre \o auth \o slash \o dot \o u.path
  IN body \o (IF u.query # "" THEN "?" \o u.query ELSE "")
          \o (IF u.fragment # "" THEN "#" \o u.fragment ELSE "")

\* resolvePath, for paths without "." and ".." segments
ResolvePath(base, ref) ==
  LET full == IF ref = "" THEN base
              ELSE IF Ch(ref, 1) # "/" THEN SubSeq(base, 1, LastIndex(base, "/")) \o ref
              ELSE ref
  IN IF full = "" THEN ""
     ELSE IF Ch(full, 1) = "/" THEN full ELSE "/" \o full

\* (*URL).ResolveReference
ResolveReference(b, ref) ==
  LET url == [ref EXCEPT !.scheme = IF ref.scheme = "" THEN b.scheme ELSE ref.scheme]
  IN IF ref.scheme # "" \/ ref.host # ""
       THEN [url EXCEPT !.path = ResolvePath(ref.path, "")]
     ELSE IF ref.opaque # ""
       THEN [url EXCEPT !.host = "", !.path = ""]
     ELSE IF ref.path = "" /\ b.opaque # ""
       THEN [url EXCEPT !.opaque = b.opaque, !.host = "", !.path = "",
                        !.query = IF ref.query = "" THEN b.query ELSE ref.query,
                        !.fragment = IF ref.query = "" /\ ref.fragment = ""
                                     THEN b.fragment ELSE ref.fragment]
     ELSE [url EXCEPT !.host = b.host,
                      !.path = ResolvePath(b.path, ref.path),
                      !.query = IF ref.path = "" /\ ref.query = ""
                                THEN b.query ELSE ref.query,
                      !.fragment = IF ref.path = "" /\ ref.query = "" /\ ref.fragment = ""
                                   THEN b.fragment ELSE ref.fragment]

(***************************************************************************)
(* Program constants and pure helpers of main                              *)
(***************************************************************************)
ignoredExtensions ==
  {".txt", ".pdf", ".doc", ".docx", ".xls", ".xlsx",
   ".ppt", ".pptx", ".zip", ".rar", ".tar", ".gz",
   ".jpg", ".jpeg", ".png", ".gif", ".bmp", ".svg",
   ".ico", ".webp", ".mp3", ".mp4", ".avi", ".mov",
   ".wmv", ".flv", ".css", ".js", ".json", ".xml",
   ".rss", ".atom", ".webmanifest", ".map"}

\* getBaseURL: the parsed URL, ok = FALSE standing for nil
getBaseURL(urlStr) == Parse(urlStr)

\* the hrefs resolveURL rejects before parsing
RejectedPrefixNoHash(lowerHref) ==
  \/ HasPrefix(lowerHref, "mailto:")
  \/ HasPrefix(lowerHref, "javascript:")
  \/ HasPrefix(lowerHref, "tel:")
  \/ HasPrefix(lowerHref, "data:")
  \/ (Contains(lowerHref, ":") /\ ~HasPrefix(lowerHref, "http:")
                               /\ ~HasPrefix(lowerHref, "https:"))

RejectedPrefix(lowerHref) ==
  \/ HasPrefix(lowerHref, "#")
  \/ HasPrefix(lowerHref, "mailto:")
  \/ HasPrefix(lowerHref, "javascript:")
  \/ HasPrefix(lowerHref, "tel:")
  \/ HasPrefix(lowerHref, "data:")
  \/ (Contains(lowerHref, ":") /\ ~HasPrefix(lowerHref, "http:")
                               /\ ~HasPrefix(lowerHref, "https:"))

\* the rewriting of a protocol-relative href ("//host/path") through base's scheme
ProtocolRelative(base, href) ==
  Parse(String([base EXCEPT !.host = "", !.path = "", !.query = "",
                            !.omitHost = FALSE, !.opaque = href]))

\* resolveURL, the end: the scheme check, Fragment = "", String()
ResolvedString(absoluteURL) ==
  IF absoluteURL.scheme # "http" /\ absoluteURL.scheme # "https" THEN ""
  ELSE String([absoluteURL EXCEPT !.fragment = ""])

\* resolveURL, from url.Parse(link.Href) on
ResolveParsed(base, relativeURL) ==
  IF ~relativeURL.ok THEN "" ELSE ResolvedString(ResolveReference(base, relativeURL))

\* resolveURL, the branch of a protocol-relative href
ResolveProtocolRelative(base, relUrl) ==
  IF ~relUrl.ok THEN "" ELSE ResolveParsed(base, Parse(String(relUrl)))

\* resolveURL: the absolute URL string without fragment, "" for "not a candidate"
resolveURL(base, href) ==
  IF ~base.ok \/ href = "" THEN ""
  ELSE IF HasPrefix(href, "//")
    THEN ResolveProtocolRelative(base, ProtocolRelative(base, href))
  ELSE IF RejectedPrefix(ToLower(href)) THEN ""
  ELSE ResolveParsed(base, Parse(href))

SameHostExact(start, target) == start.ok /\ target.ok /\ start.host = target.host

\* isSameDomain on the two parsed URLs
SameHost(start, target) == start.ok /\ target.ok /\ EqualFold(start.host, target.host)

\* isSameDomain
isSameDomain(startURLStr, targetURLStr) == SameHost(Parse(startURLStr), Parse(targetURLStr))

ExtIgnoredCaseSensitive(ext) == ext \in ignoredExtensions /\ ext # ""

\* the lookup of the lower-cased extension in ignoredExtensions
ExtIgnored(ext) == ToLower(ext) \in ignoredExtensions /\ ToLower(ext) # ""

\* the extension filter of the worker loop, on the parsed abs
IgnoredExt(parsedAbs) == ExtIgnored(PathExt(parsedAbs.path))

DepthCeilingEq(depth, md) == depth + 1 = md

\* the depth ceiling of the worker loop: the job's links are not expanded
DepthCeilingAtDepth(depth, md) == depth >= md
DepthCeiling(depth, md) == depth + 1 >= md

(***************************************************************************)
(* The web: what a GET of a URL answers.  A response is the outcome of     *)
(* client.Get together with the hrefs link.Parse finds in the body.        *)
(***************************************************************************)
Html(hrefs) == [neterr |-> FALSE, status |-> 200, ctype |-> "text/html; charset=utf-8",
                hrefs |-> hrefs]
NetErr == [neterr |-> TRUE, status |-> 0, ctype |-> "", hrefs |-> <<>>]
NotFound == [neterr |-> FALSE, status |-> 404, ctype |-> "text/html", hrefs |-> <<>>]

Scenarios == {"chain", "cycle", "diamond", "fan", "filter", "http500", "nonhtml",
              "badstart", "tree"}

StartOf(sc) == IF sc = "badstart" THEN "://a/" ELSE "http://a/"

ChainPages ==
  ("http://a/" :> Html(<<"/1">>)) @@ ("http://a/1" :> Html(<<"/2">>)) @@
  ("http://a/2" :> Html(<<"/3">>)) @@ ("http://a/3" :> Html(<<>>))

PagesOf(sc) ==
  CASE sc = "chain" -> ChainPages
    [] sc = "badstart" -> ChainPages
    [] sc = "cycle" ->
         ("http://a/" :> Html(<<"/b">>)) @@ ("http://a/b" :> Html(<<"/">>))
    [] sc = "diamond" ->
         ("http://a/" :> Html(<<"/b", "/c">>)) @@ ("http://a/b" :> Html(<<"/c">>)) @@
         ("http://a/c" :> Html(<<"/d">>)) @@ ("http://a/d" :> Html(<<>>))
    [] sc = "fan" ->
         ("http://a/" :> Html(<<"/b", "/c", "/d">>)) @@ ("http://a/b" :> Html(<<>>)) @@
         ("http://a/c" :> Html(<<>>)) @@ ("http://a/d" :> Html(<<>>))
    [] sc = "tree" ->
         ("http://a/" :> Html(<<"/b", "/c">>)) @@ ("http://a/b" :> Html(<<"/x">>)) @@
         ("http://a/c" :> Html(<<>>)) @@ ("http://a/x" :> Html(<<>>))
    [] sc = "filter" ->
         ("http://a/" :> Html(<<"style.css", "/about", "/s.JS", "mailto:x@y.com", "#top",
                                "http://b/x", "//A/p", "", "/about#team">>)) @@
         ("http://a/about" :> Html(<<"/">>)) @@ ("http://a/p" :> Html(<<>>))
    [] sc = "http500" ->
         ("http://a/" :> Html(<<"/p">>)) @@
         ("http://a/p" :> [neterr |-> FALSE, status |-> 500, ctype |-> "text/html",
                           hrefs |-> <<"/q">>]) @@
         ("http://a/q" :> Html(<<>>))
    [] sc = "nonhtml" ->
         ("http://a/" :> Html(<<"/r">>)) @@
         ("http://a/r" :> [neterr |-> FALSE, status |-> 200, ctype |-> "application/pdf",
                           hrefs |-> <<"/q">>]) @@
         ("http://a/q" :> Html(<<>>))

\* the request line of a GET of the parsed URL u: hosts are case-insensitive, an
\* empty path is requested as "/", the fragment is not sent
RequestKey(u) ==
  u.scheme \o "://" \o ToLower(u.host) \o (IF u.path = "" THEN "/" ELSE u.path)
           \o (IF u.query = "" THEN "" ELSE "?" \o u.query)

ServerResponse(pages, key) == IF key \in DOMAIN pages THEN pages[key] ELSE NotFound

ClientGet(sc, u) ==
  IF ~u.ok \/ u.scheme \notin {"http", "https"} \/ u.host = "" THEN NetErr
  ELSE ServerResponse(PagesOf(sc), RequestKey(u))

\* the answer to client.Get(urlStr) when the network does not fail
SiteResponse(sc, urlStr) == ClientGet(sc, Parse(urlStr))

\* every request may also fail in the network (timeout, refused connection)
Responses(sc, urlStr) == {SiteResponse(sc, urlStr), NetErr}

FetchErrorNetOnly(resp) == resp.neterr

\* getAndParseLinks returns an error
FetchError(resp) ==
  \/ resp.neterr
  \/ resp.status < 200 \/ resp.status >= 300
  \/ ~HasPrefix(ToLower(resp.ctype), "text/html")

\* getAndParseLinks: [err, links]
LinksOrError(resp, failed) ==
  [err |-> failed, links |-> IF failed THEN <<>> ELSE resp.hrefs]

getAndParseLinks(resp) == LinksOrError(resp, FetchError(resp))

LoadOrStoreNeverLoaded(vis, key) == FALSE

\* visited.LoadOrStore(key, true): the loaded result
LoadOrStoreLoaded(vis, key) == key \in vis

(***************************************************************************)
(* Package link.  A parsed document is the node tree html.Parse builds:    *)
(* a node has a type, its data (tag name or text), its attributes and its  *)
(* children.  A Go slice is a record: isNil tells the nil slice from an     *)
(* empty one, elems are its elements.                                       *)
(***************************************************************************)
TextNode(s) == [type |-> "text", data |-> s, attr |-> <<>>, kids |-> <<>>]
CommentNode(s) == [type |-> "comment", data |-> s, attr |-> <<>>, kids |-> <<>>]
ElementNode(tag, attrs, children) ==
  [type |-> "element", data |-> tag, attr |-> attrs, kids |-> children]
DocumentNode(children) ==
  [type |-> "document", data |-> "", attr |-> <<>>, kids |-> children]
Attr(k, v) == [key |-> k, val |-> v]

\* unicode.IsSpace on the characters used
IsSpace(c) == c \in {" ", "\t", "\n"}

\* strings.TrimSpace
NonSpaces(s) == {i \in 1..Len(s) : ~IsSpace(Ch(s, i))}
TrimSpace(s) ==
  IF NonSpaces(s) = {} THEN "" ELSE SubSeq(s, FirstOf(NonSpaces(s)), LastOf(NonSpaces(s)))

\* strings.Join(strings.Fields(s), " "): s from position i on, every run of white
\* space replaced by one space; s has no leading or trailing white space
RECURSIVE SqueezeFrom(_, _)
SqueezeFrom(s, i) ==
  IF i > Len(s) THEN ""
  ELSE IF ~IsSpace(Ch(s, i)) THEN Ch(s, i) \o SqueezeFrom(s, i + 1)
  ELSE IF IsSpace(Ch(s, i + 1)) THEN SqueezeFrom(s, i + 1)
  ELSE " " \o SqueezeFrom(s, i + 1)

JoinFields(s) == SqueezeFrom(TrimSpace(s), 1)

\* the test of linkNodes: an element node named a
IsLinkNodeAnyType(n) == n.data = "a"
IsLinkNode(n) == n.type = "element" /\ n.data = "a"

\* linkNodes: the <a> nodes in depth-first order; the search does not go below an
\* <a> node
RECURSIVE linkNodes(_), linkNodesOf(_, _)
linkNodes(n) == IF IsLinkNode(n) THEN <<n>> ELSE linkNodesOf(n.kids, 1)
linkNodesOf(children, i) ==
  IF i > Len(children) THEN <<>>
  ELSE linkNodes(children[i]) \o linkNodesOf(children, i + 1)

\* sb after the loop body of extractText has run for one child
WriteExtracted(sb, extracted) ==
  IF extracted = "" THEN sb
  ELSE IF Len(sb) > 0 THEN sb \o " " \o extracted
  ELSE extracted

RECURSIVE extractText(_), ExtractChildren(_, _, _)
extractText(n) ==
  IF n.type = "text" THEN TrimSpace(n.data)
  ELSE IF n.type # "element" THEN ""
  ELSE JoinFields(ExtractChildren(n.kids, 1, ""))
ExtractChildren(children, i, sb) ==
  IF i > Len(children) THEN sb
  ELSE ExtractChildren(children, i + 1, WriteExtracted(sb, extractText(children[i])))

\* the loop over n.Attr of buildLink: the value of the first href attribute
RECURSIVE FirstHref(_, _)
FirstHref(attrs, i) ==
  IF i > Len(attrs) THEN ""
  ELSE IF attrs[i].key = "href" THEN attrs[i].val
  ELSE FirstHref(attrs, i + 1)

buildLink(n) == [Href |-> FirstHref(n.attr, 1), Text |-> extractText(n)]

\* var links []Link, then one append per node: nil when there is no node
NilSlice == [isNil |-> TRUE, elems |-> <<>>]
EmptySlice == [isNil |-> FALSE, elems |-> <<>>]
AppendAll(nodes) ==
  [isNil |-> nodes = <<>>, elems |-> [i \in 1..Len(nodes) |-> buildLink(nodes[i])]]

\* reflect.DeepEqual on two slices: a nil slice and a non-nil empty slice differ
DeepEqual(a, b) == a.isNil = b.isNil /\ a.elems = b.elems

\* link.Parse on a reader: html.Parse fails on a read error only
LinkParse(r) ==
  IF r.readErr THEN [links |-> NilSlice, err |-> "error"]
  ELSE [links |-> AppendAll(linkNodes(r.root)), err |-> "nil"]

\* the documents: html.Parse wraps every input, the empty input too, in
\* html, head and body; the body holds up to MaxItems of these pieces
BodyItems ==
  { ElementNode("a", <<Attr("href", "/page1")>>, <<TextNode("Link 1")>>),
    ElementNode("a", <<Attr("class", "btn")>>, <<TextNode("no href")>>),
    ElementNode("a", <<Attr("id", "x"), Attr("href", "")>>, <<>>),
    ElementNode("div", <<>>,
      <<ElementNode("a", <<Attr("href", "https://example.com/page2")>>,
                    <<TextNode("Link 2")>>)>>),
    CommentNode(" <a href=\"/commented\">Commented</a> "),
    ElementNode("p", <<Attr("href", "/not-a-link")>>, <<TextNode("a")>>),
    ElementNode("a", <<Attr("href", "/nested")>>,
      << TextNode("\n  Click "),
         ElementNode("b", <<>>, <<TextNode("here")>>),
         ElementNode("a", <<Attr("href", "/inner")>>, <<TextNode("inner")>>),
         ElementNode("span", <<>>, <<TextNode(" for \tmore\n ")>>),
         TextNode(" info!\n") >>),
    TextNode("\n  ") }

Bodies == UNION {[1..n -> BodyItems] : n \in 0..MaxItems}

HtmlDocument(body) ==
  DocumentNode(<<ElementNode("html", <<>>,
                   <<ElementNode("head", <<>>, <<>>), ElementNode("body", <<>>, body)>>)>>)

NoNode == DocumentNode(<<>>)

Readers ==
  {[readErr |-> FALSE, root |-> HtmlDocument(b)] : b \in Bodies}
    \cup {[readErr |-> TRUE, root |-> NoNode]}

(***************************************************************************)
(* buildSitemap                                                            *)
(***************************************************************************)
VARIABLES
  scenario,        \* the site being crawled
  startURL, maxDepth, numWorkers,
  jobs,            \* the buffer of the jobs channel (capacity numWorkers)
  jobsClosed,      \* close(jobs) has run
  tasks,           \* the counter of the tasks WaitGroup
  visited,         \* the keys of the visited sync.Map
  finalURLs,
  scannedCount, addedCount, queuedCount, skippedExtCount,
  wpc,             \* each worker's position in its loop
  wjob,            \* the job j a worker is processing
  wlinks,          \* its foundLinks (hrefs)
  wi,              \* the index of the link l it is at
  wabs,            \* its abs
  seedPc,          \* the goroutine that sends the first job
  closerPc,        \* the goroutine that waits for tasks and closes jobs
  mainPc, result, err,
  panicked,        \* a send on the closed channel
  fetchFailed,     \* history: the URLs whose fetch returned an error
  fetchedOK,       \* history: the URLs whose fetch succeeded
  parent,          \* history: <<admitted URL, URL of the job that admitted it>>
  admitOrder,      \* history: the keys of visited in the order they were stored
  showStats,
  statsPc,         \* the stats goroutine: not started, in its select loop, finished
  stopStats,       \* the stopStats channel: open or closed
  printed,         \* the number of counter snapshots the stats goroutine has logged
  jobCount,        \* history: per URL, the number of jobs created for it
  doc,             \* link.Parse: the reader r it is called on
  parseOut,        \* link.Parse: what it returns
  parsePc,         \* link.Parse: not called, called, returned
  resBase,         \* resolveURL: the URL string its base was parsed from
  resHref,         \* resolveURL: its href
  resAbs,          \* resolveURL: what it returns
  resPc            \* resolveURL: not called, called, returned, skipped or kept

vars == <<scenario, startURL, maxDepth, numWorkers, jobs, jobsClosed, tasks, visited,
          finalURLs, scannedCount, addedCount, queuedCount, skippedExtCount,
          wpc, wjob, wlinks, wi, wabs, seedPc, closerPc, mainPc, result, err,
          panicked, fetchFailed, fetchedOK, parent, admitOrder, jobCount,
          showStats, statsPc, stopStats, printed,
          doc, parseOut, parsePc, resBase, resHref, resAbs, resPc>>

config == <<scenario, startURL, maxDepth, numWorkers, showStats>>
reporter == <<statsPc, stopStats, printed>>
stats == <<scannedCount, addedCount, queuedCount, skippedExtCount>>
others == <<seedPc, closerPc, mainPc, result, err>>
crawl == <<config, reporter, jobs, jobsClosed, tasks, visited, finalURLs, stats, wpc, wjob,
           wlinks, wi, wabs, others, panicked, fetchFailed, fetchedOK, parent, admitOrder,
           jobCount>>
parseVars == <<doc, parseOut, parsePc>>
resolveVars == <<resBase, resHref, resAbs, resPc>>
pure == <<parseVars, resolveVars>>

Workers == 1..numWorkers

NoJob == [url |-> "", depth |-> 0]

NoReader == [readErr |-> FALSE, root |-> NoNode]
NoParse == [links |-> NilSlice, err |-> "unset"]

\* link.Parse is not called
ParseIdle == doc = NoReader /\ parseOut = NoParse /\ parsePc = "off"

\* resolveURL is not called
ResolveIdle == resBase = "" /\ resHref = "" /\ resAbs = "" /\ resPc = "off"

\* the state when main blocks in workers.Wait(): the workers, the seed goroutine and
\* the closer goroutine are started, tasks.Add(1) and queuedCount.Add(1) have run
InitCrawl ==
  /\ scenario \in Scenarios
  /\ startURL = StartOf(scenario)
  /\ maxDepth \in 0..MaxDepthBound
  /\ numWorkers \in 1..MaxWorkers
  /\ jobs = <<>>
  /\ jobsClosed = FALSE
  /\ tasks = 1
  /\ visited = {startURL}
  /\ finalURLs = <<startURL>>
  /\ scannedCount = 0 /\ addedCount = 0 /\ queuedCount = 1 /\ skippedExtCount = 0
  /\ wpc = [w \in Workers |-> "recv"]
  /\ wjob = [w \in Workers |-> NoJob]
  /\ wlinks = [w \in Workers |-> <<>>]
  /\ wi = [w \in Workers |-> 0]
  /\ wabs = [w \in Workers |-> ""]
  /\ seedPc = "send"
  /\ closerPc = "wait"
  /\ mainPc = "wait"
  /\ result = <<>>
  /\ err = "unset"
  /\ panicked = FALSE
  /\ fetchFailed = {}
  /\ fetchedOK = {}
  /\ parent = {}
  /\ admitOrder = <<startURL>>
  /\ jobCount = (startURL :> 1)
  /\ ParseIdle /\ ResolveIdle

\* stopStats := make(chan struct{}); the stats goroutine is started if showStats
InitReporter ==
  /\ statsPc = (IF showStats THEN "run" ELSE "off")
  /\ stopStats = "open"
  /\ printed = 0

\* buildSitemap called with showStats = false
Init == InitCrawl /\ showStats = FALSE /\ InitReporter


\* tasks.Add(1) and tasks.Done() on the sync.WaitGroup counter
TasksAddSkipped(t) == t
TasksAdd(t) == t + 1

TasksDoneTwice(t) == t - 2
TasksDoneSkipped(t) == t
TasksDone(t) == t - 1

\* tasks.Wait() returns when the counter is zero
WaitReturnsBelowZero(t) == t < 0
WaitReturns(t) == t = 0

\* the loop over foundLinks has run through every link
LoopDoneEarly(i, foundLinks) == i >= Len(foundLinks)
LoopDone(i, foundLinks) == i > Len(foundLinks)

\* queuedCount.Add(-1) when a job is dequeued
QueuedDoneMissing(q) == q
QueuedDone(q) == q - 1

\* for j := range jobs: a job is received; scannedCount.Add(1); queuedCount.Add(-1)
Receive(w) ==
  /\ ~panicked /\ wpc[w] = "recv" /\ jobs # <<>>
  /\ jobs' = Tail(jobs)
  /\ wjob' = [wjob EXCEPT ![w] = Head(jobs)]
  /\ scannedCount' = scannedCount + 1
  /\ queuedCount' = QueuedDone(queuedCount)
  /\ wpc' = [wpc EXCEPT ![w] = "fetch"]
  /\ UNCHANGED <<pure, reporter, config, jobsClosed, tasks, visited, finalURLs, addedCount,
                 skippedExtCount, wlinks, wi, wabs, others, panicked, fetchFailed,
                 fetchedOK, parent, admitOrder, jobCount>>

\* continue: where the worker is after an early exit of its loop body
ReturnOnError(r) == IF r.err THEN "exit" ELSE "recv"
ContinueAt(r) == "recv"

\* the worker's loop body once getAndParseLinks(j.url) has returned r: the three
\* early exits (fetch error, depth ceiling, nil base), each with tasks.Done(), or
\* the start of the loop over foundLinks
FetchResult(w, r, base) ==
  /\ fetchFailed' = IF r.err THEN fetchFailed \cup {wjob[w].url} ELSE fetchFailed
  /\ fetchedOK' = IF r.err THEN fetchedOK ELSE fetchedOK \cup {wjob[w].url}
  /\ IF r.err \/ DepthCeiling(wjob[w].depth, maxDepth) \/ ~base.ok
     THEN /\ tasks' = TasksDone(tasks)
          /\ wpc' = [wpc EXCEPT ![w] = ContinueAt(r)]
          /\ UNCHANGED <<wlinks, wi>>
     ELSE /\ wlinks' = [wlinks EXCEPT ![w] = r.links]
          /\ wi' = [wi EXCEPT ![w] = 1]
          /\ wpc' = [wpc EXCEPT ![w] = "links"]
          /\ UNCHANGED tasks

\* foundLinks, err := getAndParseLinks(j.url) and what follows it up to the loop
Fetch(w) ==
  /\ ~panicked /\ wpc[w] = "fetch"
  /\ \E resp \in Responses(scenario, wjob[w].url) :
       FetchResult(w, getAndParseLinks(resp), getBaseURL(wjob[w].url))
  /\ UNCHANGED <<pure, reporter, config, jobs, jobsClosed, visited, finalURLs, stats, wjob, wabs,
                 others, panicked, parent, admitOrder, jobCount>>

\* the link is skipped (continue)
SkipLink(w) ==
  /\ wi' = [wi EXCEPT ![w] = @ + 1]
  /\ UNCHANGED <<wpc, wabs, visited, parent, admitOrder>>

\* the filters on abs, then visited.LoadOrStore(abs, true)
Admit(w, abs, parsedAbs) ==
  IF abs = "" \/ ~parsedAbs.ok
    THEN SkipLink(w) /\ UNCHANGED skippedExtCount
  ELSE IF IgnoredExt(parsedAbs)
    THEN SkipLink(w) /\ skippedExtCount' = skippedExtCount + 1
  ELSE IF ~SameHost(Parse(startURL), parsedAbs) \/ LoadOrStoreLoaded(visited, abs)
    THEN SkipLink(w) /\ UNCHANGED skippedExtCount
  ELSE /\ visited' = visited \cup {abs}
       /\ wabs' = [wabs EXCEPT ![w] = abs]
       /\ parent' = parent \cup {<<abs, wjob[w].url>>}
       /\ admitOrder' = Append(admitOrder, abs)
       /\ wpc' = [wpc EXCEPT ![w] = "append"]
       /\ UNCHANGED <<wi, skippedExtCount>>

AdmitResolved(w, abs) == Admit(w, abs, Parse(abs))

\* one iteration of the loop over foundLinks up to visited.LoadOrStore: the link
\* is skipped, or abs is newly stored in visited
Link(w) ==
  /\ ~panicked /\ wpc[w] = "links" /\ ~LoopDone(wi[w], wlinks[w])
  /\ AdmitResolved(w, resolveURL(getBaseURL(wjob[w].url), wlinks[w][wi[w]]))
  /\ UNCHANGED <<pure, reporter, config, jobs, jobsClosed, tasks, finalURLs, scannedCount, addedCount,
                 queuedCount, wjob, wlinks, others, panicked, fetchFailed, fetchedOK,
                 jobCount>>

\* the append to finalURLs inside mu.Lock() / mu.Unlock(): no append is lost
LostUpdateAppend(list, u) ==
  IF Len(list) >= 2 THEN [list EXCEPT ![Len(list)] = u] ELSE Append(list, u)
LockedAppend(list, u) == Append(list, u)

\* mu.Lock(); finalURLs = append(finalURLs, abs); mu.Unlock(); addedCount.Add(1)
AppendURL(w) ==
  /\ ~panicked /\ wpc[w] = "append"
  /\ finalURLs' = LockedAppend(finalURLs, wabs[w])
  /\ addedCount' = addedCount + 1
  /\ wpc' = [wpc EXCEPT ![w] = "add"]
  /\ UNCHANGED <<pure, reporter, config, jobs, jobsClosed, tasks, visited, scannedCount, queuedCount,
                 skippedExtCount, wjob, wlinks, wi, wabs, others, panicked,
                 fetchFailed, fetchedOK, parent, admitOrder, jobCount>>

\* tasks.Add(1); queuedCount.Add(1)
AddTask(w) ==
  /\ ~panicked /\ wpc[w] = "add"
  /\ tasks' = TasksAdd(tasks)
  /\ queuedCount' = queuedCount + 1
  /\ jobCount' = IF wabs[w] \in DOMAIN jobCount
                 THEN [jobCount EXCEPT ![wabs[w]] = @ + 1]
                 ELSE jobCount @@ (wabs[w] :> 1)
  /\ wpc' = [wpc EXCEPT ![w] = "send"]
  /\ UNCHANGED <<pure, reporter, config, jobs, jobsClosed, visited, finalURLs, scannedCount, addedCount,
                 skippedExtCount, wjob, wlinks, wi, wabs, others, panicked,
                 fetchFailed, fetchedOK, parent, admitOrder>>

\* the depth of a follow-on job: j.depth + 1
ChildDepthSame(d) == d
ChildDepth(d) == d + 1

\* jobs <- job{url: abs, depth: j.depth + 1}: blocks while the buffer is full,
\* panics on a closed channel
Send(w) ==
  /\ ~panicked /\ wpc[w] = "send"
  /\ IF jobsClosed
     THEN panicked' = TRUE /\ UNCHANGED <<jobs, wi, wpc>>
     ELSE /\ Len(jobs) < numWorkers
          /\ jobs' = Append(jobs, [url |-> wabs[w], depth |-> ChildDepth(wjob[w].depth)])
          /\ wi' = [wi EXCEPT ![w] = @ + 1]
          /\ wpc' = [wpc EXCEPT ![w] = "links"]
          /\ UNCHANGED panicked
  /\ UNCHANGED <<pure, reporter, config, jobsClosed, tasks, visited, finalURLs, stats, wjob, wlinks,
                 wabs, others, fetchFailed, fetchedOK, parent, admitOrder, jobCount>>

\* the tasks.Done() after the loop over foundLinks
Complete(w) ==
  /\ ~panicked /\ wpc[w] = "links" /\ LoopDone(wi[w], wlinks[w])
  /\ tasks' = TasksDone(tasks)
  /\ wpc' = [wpc EXCEPT ![w] = "recv"]
  /\ UNCHANGED <<pure, reporter, config, jobs, jobsClosed, visited, finalURLs, stats, wjob, wlinks, wi,
                 wabs, others, panicked, fetchFailed, fetchedOK, parent, admitOrder, jobCount>>

\* the range over jobs ends: the channel is closed and empty; workers.Done()
WorkerExit(w) ==
  /\ ~panicked /\ wpc[w] = "recv" /\ jobs = <<>> /\ jobsClosed
  /\ wpc' = [wpc EXCEPT ![w] = "exit"]
  /\ UNCHANGED <<pure, reporter, config, jobs, jobsClosed, tasks, visited, finalURLs, stats, wjob,
                 wlinks, wi, wabs, others, panicked, fetchFailed, fetchedOK, parent, admitOrder,
                 jobCount>>

\* go func() { jobs <- job{url: startURL, depth: 0} }()
SeedSend ==
  /\ ~panicked /\ seedPc = "send"
  /\ IF jobsClosed
     THEN panicked' = TRUE /\ UNCHANGED <<jobs, seedPc>>
     ELSE /\ Len(jobs) < numWorkers
          /\ jobs' = Append(jobs, [url |-> startURL, depth |-> 0])
          /\ seedPc' = "done"
          /\ UNCHANGED panicked
  /\ UNCHANGED <<pure, reporter, config, jobsClosed, tasks, visited, finalURLs, stats, wpc, wjob,
                 wlinks, wi, wabs, closerPc, mainPc, result, err, fetchFailed,
                 fetchedOK, parent, admitOrder, jobCount>>

\* tasks.Wait() returns: the counter is zero
CloserWait ==
  /\ ~panicked /\ closerPc = "wait" /\ WaitReturns(tasks)
  /\ closerPc' = "close"
  /\ UNCHANGED <<pure, reporter, config, jobs, jobsClosed, tasks, visited, finalURLs, stats, wpc, wjob,
                 wlinks, wi, wabs, seedPc, mainPc, result, err, panicked, fetchFailed,
                 fetchedOK, parent, admitOrder, jobCount>>

\* close(jobs)
CloserClose ==
  /\ ~panicked /\ closerPc = "close"
  /\ jobsClosed' = TRUE
  /\ closerPc' = "done"
  /\ UNCHANGED <<pure, reporter, config, jobs, tasks, visited, finalURLs, stats, wpc, wjob, wlinks, wi,
                 wabs, seedPc, mainPc, result, err, panicked, fetchFailed, fetchedOK,
                 parent, admitOrder, jobCount>>

\* workers.Wait() returns when every worker has run its deferred workers.Done()
WorkersWaitReturnsEarly(pcs, ws) == \E w \in ws : pcs[w] = "exit"
WorkersWaitReturns(pcs, ws) == \A w \in ws : pcs[w] = "exit"

\* workers.Wait() has returned (and, with showStats, stopStats is closed and the
\* sleep is over); return finalURLs, nil
Return ==
  /\ ~panicked
  /\ \/ mainPc = "wait" /\ ~showStats /\ WorkersWaitReturns(wpc, Workers)
     \/ mainPc = "stopping"
  /\ mainPc' = "returned"
  /\ result' = finalURLs
  /\ err' = "nil"
  /\ UNCHANGED <<pure, reporter, config, jobs, jobsClosed, tasks, visited, finalURLs, stats, wpc, wjob,
                 wlinks, wi, wabs, seedPc, closerPc, panicked, fetchFailed, fetchedOK,
                 parent, admitOrder, jobCount>>

Next ==
  \/ \E w \in Workers : Receive(w)
  \/ \E w \in Workers : Fetch(w)
  \/ \E w \in Workers : Link(w)
  \/ \E w \in Workers : AppendURL(w)
  \/ \E w \in Workers : AddTask(w)
  \/ \E w \in Workers : Send(w)
  \/ \E w \in Workers : Complete(w)
  \/ \E w \in Workers : WorkerExit(w)
  \/ SeedSend
  \/ CloserWait
  \/ CloserClose
  \/ Return

Spec == Init /\ [][Next]_vars

(***************************************************************************)
(* buildSitemap with the stats goroutine.                                  *)
(***************************************************************************)
InitStats == InitCrawl /\ showStats \in BOOLEAN /\ InitReporter

\* case <-ticker.C: the four counters are loaded and their values logged; the log
\* line is output, no variable of buildSitemap is written
StatsTick ==
  /\ ~panicked /\ statsPc = "run" /\ printed < MaxTicks
  /\ printed' = printed + 1
  /\ UNCHANGED <<pure, config, statsPc, stopStats, jobs, jobsClosed, tasks, visited,
                 finalURLs, stats, wpc, wjob, wlinks, wi, wabs, others, panicked,
                 fetchFailed, fetchedOK, parent, admitOrder, jobCount>>

\* case <-stopStats: the stats goroutine returns
StatsStop ==
  /\ ~panicked /\ statsPc = "run" /\ stopStats = "closed"
  /\ statsPc' = "done"
  /\ UNCHANGED <<pure, config, stopStats, printed, jobs, jobsClosed, tasks, visited,
                 finalURLs, stats, wpc, wjob, wlinks, wi, wabs, others, panicked,
                 fetchFailed, fetchedOK, parent, admitOrder, jobCount>>

\* workers.Wait() returns; if showStats { close(stopStats); time.Sleep(...) }
CloseStopStats ==
  /\ ~panicked /\ mainPc = "wait" /\ showStats /\ WorkersWaitReturns(wpc, Workers)
  /\ stopStats' = "closed"
  /\ mainPc' = "stopping"
  /\ UNCHANGED <<pure, config, statsPc, printed, jobs, jobsClosed, tasks, visited,
                 finalURLs, stats, wpc, wjob, wlinks, wi, wabs, seedPc, closerPc, result,
                 err, panicked, fetchFailed, fetchedOK, parent, admitOrder, jobCount>>

NextStats == Next \/ StatsTick \/ StatsStop \/ CloseStopStats

StatsSpec == InitStats /\ [][NextStats]_vars

(***************************************************************************)
(* link.Parse and resolveURL on their own: the input is drawn from a       *)
(* bounded set, one step applies the function; buildSitemap is not called. *)
(***************************************************************************)
CrawlIdle ==
  /\ scenario = "chain" /\ startURL = "" /\ maxDepth = 0 /\ numWorkers = 1
  /\ jobs = <<>> /\ jobsClosed = FALSE /\ tasks = 0
  /\ visited = {} /\ finalURLs = <<>>
  /\ scannedCount = 0 /\ addedCount = 0 /\ queuedCount = 0 /\ skippedExtCount = 0
  /\ wpc = <<"off">> /\ wjob = <<NoJob>> /\ wlinks = << <<>> >> /\ wi = <<0>>
  /\ wabs = <<"">>
  /\ seedPc = "off" /\ closerPc = "off" /\ mainPc = "off"
  /\ showStats = FALSE /\ statsPc = "off" /\ stopStats = "open" /\ printed = 0
  /\ result = <<>> /\ err = "unset" /\ panicked = FALSE
  /\ fetchFailed = {} /\ fetchedOK = {} /\ parent = {} /\ admitOrder = <<>> /\ jobCount = <<>>

InitParse ==
  /\ CrawlIdle /\ ResolveIdle
  /\ doc \in Readers
  /\ parseOut = NoParse
  /\ parsePc = "called"

\* links, err := link.Parse(r)
ParseReturn ==
  /\ parsePc = "called"
  /\ parseOut' = LinkParse(doc)
  /\ parsePc' = "returned"
  /\ UNCHANGED <<crawl, resolveVars, doc>>

NextParse == ParseReturn

ParseSpec == InitParse /\ [][NextParse]_vars

\* the hrefs resolveURL is called on: a reference followed by a fragment
HrefHeads ==
  {"", "/a", "b/c", "style.css", "?q=1", "//h/p", "http://h/x", "HTTPS://H/y",
   "/wiki/Talk:Go", "/p?t=1:2", "ftp://h/f",
   "mailto:x@y.com", "MailTo:x", "javascript:void(0)", "JavaScript:f()",
   "tel:+1", "TEL:5", "data:text/plain,hi", "DATA:x"}
HrefFragments == {"", "#", "#x", "#y", "#t:1"}
Hrefs == {h \o f : h \in HrefHeads, f \in HrefFragments}

\* the URL strings the base is parsed from; "://a/" does not parse (nil base)
BaseStrings == {"http://a/", "https://a/dir/p?q=1", "http://A/x#top", "ftp://a/", "://a/"}

InitResolve ==
  /\ CrawlIdle /\ ParseIdle
  /\ resBase \in BaseStrings
  /\ resHref \in Hrefs
  /\ resAbs = ""
  /\ resPc = "called"

\* abs := resolveURL(base, link.Href)
ResolveReturn ==
  /\ resPc = "called"
  /\ resAbs' = resolveURL(getBaseURL(resBase), resHref)
  /\ resPc' = "returned"
  /\ UNCHANGED <<crawl, parseVars, resBase, resHref>>

\* if abs == "" { continue }
ResolveSkip ==
  /\ resPc = "returned" /\ resAbs = ""
  /\ resPc' = "skipped"
  /\ UNCHANGED <<crawl, parseVars, resBase, resHref, resAbs>>

\* abs is not empty: the loop body goes on to the filters on abs
ResolveKeep ==
  /\ resPc = "returned" /\ resAbs # ""
  /\ resPc' = "kept"
  /\ UNCHANGED <<crawl, parseVars, resBase, resHref, resAbs>>

NextResolve == ResolveReturn \/ ResolveSkip \/ ResolveKeep

ResolveSpec == InitResolve /\ [][NextResolve]_vars

TypeOK ==
  /\ scenario \in Scenarios
  /\ maxDepth \in 0..MaxDepthBound /\ numWorkers \in 1..MaxWorkers
  /\ Len(jobs) <= numWorkers
  /\ tasks \in 0..100 /\ jobsClosed \in BOOLEAN /\ panicked \in BOOLEAN
  /\ \A w \in Workers : wpc[w] \in {"recv", "fetch", "links", "append", "add", "send", "exit"}
  /\ mainPc \in {"wait", "stopping", "returned"}


(***************************************************************************)
(* Properties                                                              *)
(***************************************************************************)
returned == mainPc = "returned"

SetOf(seq) == {seq[i] : i \in 1..Len(seq)}

Count(seq, u) == Cardinality({i \in 1..Len(seq) : seq[i] = u})

\* the pages of the site graph linked from the page at urlStr
Succs(sc, urlStr, r) ==
  IF r.neterr \/ r.status # 200 THEN {}
  ELSE {resolveURL(Parse(urlStr), r.hrefs[i]) : i \in 1..Len(r.hrefs)} \ {""}

SuccsOfAll(sc, us) == UNION {Succs(sc, u, SiteResponse(sc, u)) : u \in us}

\* the URLs at link distance at most k from start
RECURSIVE Within(_, _, _)
Within(sc, start, k) ==
  IF k <= 0 THEN {start}
  ELSE Within(sc, start, k - 1) \cup SuccsOfAll(sc, Within(sc, start, k - 1))

\* the site answers a GET of urlStr with a failure of getAndParseLinks
FailsAtSite(r) ==
  r.neterr \/ r.status \notin 200..299 \/ SubSeq(r.ctype, 1, 9) # "text/html"

\* C1: no reachable state has every worker blocked sending a new job on the full
\* job channel while no worker can receive (so that buildSitemap always returns).
C1_NoSendDeadlock ==
  ~(/\ \A w \in Workers : wpc[w] = "send"
    /\ Len(jobs) = numWorkers
    /\ ~jobsClosed)

\* C2: on the linear chain P0 -> P1 -> P2 -> P3 with all fetches succeeding,
\* buildSitemap with maxDepth = n returns exactly the pages P0..Pn.
C2_ChainReturnsDepthPlusOne ==
  (returned /\ scenario = "chain" /\ fetchFailed = {})
    => SetOf(result) = Within("chain", "http://a/", maxDepth)

\* C3: when all fetches of a same-host HTML site succeed and buildSitemap returns,
\* every URL at shortest link distance d < maxDepth from startURL is in the
\* returned list exactly once.
C3_AllWithinDepthOnce ==
  (returned /\ scenario \in {"chain", "cycle", "diamond", "fan"} /\ fetchFailed = {}
     /\ maxDepth >= 1)
    => \A u \in Within(scenario, startURL, maxDepth - 1) : Count(result, u) = 1

\* C4: no URL string occurs twice in finalURLs and at most one job is ever created
\* per URL: a URL is observed as newly admitted at most once.
C4_ExactlyOnceAdmission ==
  /\ \A i, k \in 1..Len(finalURLs) : finalURLs[i] = finalURLs[k] => i = k
  /\ \A u \in DOMAIN jobCount : jobCount[u] <= 1
  /\ \A w, x \in Workers :
       (w # x /\ wpc[w] \in {"append", "add", "send"} /\ wpc[x] \in {"append", "add", "send"})
         => wabs[w] # wabs[x]

\* C4 witness: one worker has just newly admitted a URL that another worker, at
\* the same time, is about to look up for a link of its own job.
C4_Witness ==
  \E w, x \in Workers :
    /\ w # x
    /\ wpc[w] = "append"
    /\ wpc[x] = "links" /\ wi[x] <= Len(wlinks[x])
    /\ resolveURL(Parse(wjob[x].url), wlinks[x][wi[x]]) = wabs[w]

\* C5: every URL u in finalURLs satisfies isSameDomain(startURL, u) = true.
C5_OutputSameHost ==
  \A i \in 1..Len(finalURLs) :
    /\ Parse(startURL).ok /\ Parse(finalURLs[i]).ok
    /\ ToLower(Parse(startURL).host) = ToLower(Parse(finalURLs[i]).host)

\* C6: with maxDepth = 0 buildSitemap returns exactly the one-element list
\* [startURL], for every site, worker count and fetch outcome of the start page.
C6_DepthZeroOnlyStart ==
  maxDepth = 0 =>
    /\ finalURLs = <<startURL>>
    /\ returned => result = <<startURL>>

\* C6 witness: a crawl with maxDepth = 0 has returned after the start page, which
\* has links, was fetched successfully.
C6_Witness ==
  /\ returned /\ maxDepth = 0 /\ scenario = "fan"
  /\ startURL \in fetchedOK /\ scannedCount = 1

\* C7: on the cycle A -> B, B -> A with fetches succeeding and maxDepth >= 1,
\* buildSitemap returns exactly the set {A, B}, and A is never re-admitted or
\* re-enqueued.
C7_CycleReturnsBoth ==
  /\ scenario = "cycle" => (jobCount["http://a/"] = 1 /\ Count(finalURLs, "http://a/") = 1)
  /\ (returned /\ scenario = "cycle" /\ maxDepth >= 1 /\ fetchFailed = {})
       => SetOf(result) = {"http://a/", "http://a/b"}

\* C8: no URL in finalURLs other than startURL has a path extension (compared
\* case-insensitively) in ignoredExtensions; once a worker has gone through the
\* links of a page that links to style.css and /about, /about is admitted and
\* style.css is not.
C8_NoIgnoredExtension ==
  /\ \A i \in 2..Len(finalURLs) :
       ToLower(PathExt(Parse(finalURLs[i]).path)) \notin ignoredExtensions
  /\ \A w \in Workers :
       (scenario = "filter" /\ wjob[w].url = "http://a/" /\ wpc[w] = "links"
          /\ wi[w] > Len(wlinks[w]))
         => /\ "http://a/about" \in SetOf(finalURLs)
            /\ "http://a/style.css" \notin visited

\* C8 witness: the crawl of the page with the links style.css, /s.JS and /about has
\* returned with both extension links skipped and /about in the result.
C8_Witness ==
  /\ returned /\ scenario = "filter"
  /\ skippedExtCount >= 2
  /\ "http://a/about" \in SetOf(result)

\* C9: a page whose fetch fails (network error, non-2xx status, non-HTML content
\* type) stays in finalURLs, no URL is ever admitted or enqueued because of it, and
\* buildSitemap returns a nil error.
C9_FailedPageNoChildren ==
  /\ \A u \in fetchFailed :
       /\ u \in SetOf(finalURLs)
       /\ \A pr \in parent : pr[2] # u
       /\ \A w \in Workers :
            wpc[w] \in {"links", "append", "add", "send"} => wjob[w].url # u
  /\ \A pr \in parent : ~FailsAtSite(SiteResponse(scenario, pr[2]))
  /\ returned => err = "nil"

\* C9 witness: the linked page /p, which answers HTTP 500, was admitted and its
\* fetch failed at a depth where its links would otherwise have been expanded, and
\* buildSitemap has returned.
C9_Witness ==
  /\ returned /\ scenario = "http500" /\ maxDepth >= 3
  /\ "http://a/" \in fetchedOK
  /\ "http://a/p" \in fetchFailed
  /\ "http://a/p" \in SetOf(result)

\* C10: buildSitemap returns an error and performs no crawl when startURL cannot
\* be parsed as a URL, and a nil error for every parsable startURL.
C10_InvalidStartIsError ==
  returned =>
    IF Parse(startURL).ok THEN err = "nil"
    ELSE err # "nil" /\ scannedCount = 0

\* no job is pending, queued or being processed
Drained ==
  /\ tasks = 0 /\ jobs = <<>> /\ seedPc = "done"
  /\ \A w \in Workers : wpc[w] \in {"recv", "exit"}

\* C11: the closer passes tasks.Wait() and closes the jobs channel only in a state
\* where the tasks counter is zero, no job is in the channel, no send is pending and
\* no worker is processing a job; once the counter is zero it stays zero and nothing
\* is sent any more; no send ever hits the closed channel.
C11_CloseOnlyWhenDrained ==
  /\ []((closerPc # "wait" \/ jobsClosed) => Drained)
  /\ []~panicked
  /\ [][tasks = 0 => (tasks' = 0 /\ jobs' = jobs /\ visited' = visited)]_vars

\* C11 witness: the channel was closed after a crawl in which workers admitted
\* links and sent follow-on jobs.
C11_Witness ==
  /\ jobsClosed /\ addedCount >= 2 /\ scannedCount >= 3

\* the worker has dequeued a job whose tasks.Done() has not run yet
Busy(w) == wpc[w] \in {"fetch", "links", "append", "add", "send"}

\* C12: tasks.Done() for a job runs only after the loop over its links has run
\* through, every tasks.Add(1) for one of its links runs before that and before the
\* link's send; hence the counter is at least one while a worker is on a job, and
\* at least two (the job and the counted link) while its send is pending.
C12_AddBeforeDoneAndSend ==
  /\ [](\A w \in Workers : Busy(w) => tasks >= 1)
  /\ [](\A w \in Workers :
          wpc[w] = "send" => (tasks >= 2 /\ wabs[w] \in DOMAIN jobCount))
  /\ [](\A i \in 1..Len(jobs) : jobs[i].url \in DOMAIN jobCount)
  /\ [][\A w \in Workers :
          (wpc[w] \in {"links", "append", "add", "send"} /\ ~Busy(w)')
            => (wpc[w] = "links" /\ wi[w] > Len(wlinks[w]))]_vars

\* C12 witness: a worker is about to send a counted link while a further link of
\* the same job is still to be handled.
C12_Witness ==
  \E w \in Workers :
    /\ wpc[w] = "send" /\ wi[w] < Len(wlinks[w])
    /\ tasks >= 2

\* the jobs created and not yet completed: the pending sends (the seed's and the
\* workers'), the jobs in the channel, and the dequeued jobs whose tasks.Done() has
\* not run
PendingSends ==
  (IF seedPc = "send" THEN 1 ELSE 0) + Cardinality({w \in Workers : wpc[w] = "send"})

Outstanding == PendingSends + Len(jobs) + Cardinality({w \in Workers : Busy(w)})

\* C17: the tasks counter equals the number of jobs created and not yet completed,
\* is never negative, and is zero only when no send is pending, the channel is
\* empty and no worker is on a job, so that no URL can be admitted any more.
C17_TasksCountsOutstanding ==
  /\ tasks = Outstanding
  /\ tasks >= 0
  /\ tasks = 0 => (PendingSends = 0 /\ jobs = <<>> /\ \A w \in Workers : ~Busy(w))

\* C17 witness: a pending send, a job in the channel and a dequeued job are counted
\* at the same time.
C17_Witness ==
  /\ \E w \in Workers : wpc[w] = "send"
  /\ Len(jobs) >= 1
  /\ \E w \in Workers : wpc[w] = "fetch"
  /\ tasks = 4

\* C18: the step in which a worker leaves a dequeued job (after a fetch or parse
\* error, at the depth ceiling, on a nil base, or after the loop over the links)
\* lowers the tasks counter by exactly one, no other step lowers it, and a worker
\* that is back at the receive has left its job through such a step: tasks.Done()
\* runs once per dequeued job, never twice and never not at all.
C18_DoneOncePerJob ==
  /\ [][\A w \in Workers : (Busy(w) /\ ~Busy(w)') => tasks' = tasks - 1]_vars
  /\ [][tasks' < tasks =>
          /\ tasks' = tasks - 1
          /\ Cardinality({w \in Workers : Busy(w) /\ ~Busy(w)'}) = 1]_vars

\* C18 witness: a crawl has returned in which one job ended after its loop over the
\* links, one on a fetch error and one at the depth ceiling.
C18_Witness ==
  /\ returned /\ scenario = "diamond" /\ maxDepth = 2
  /\ "http://a/b" \in fetchFailed
  /\ "http://a/c" \in fetchedOK /\ "http://a/d" \notin visited
  /\ tasks = 0 /\ scannedCount = 3

\* C20: a job with depth + 1 >= maxDepth is fetched like any other job, and its
\* worker never enters the loop over its links, so neither tasks.Add nor a send runs
\* for it; when maxDepth >= 1 every job in the channel or held by a worker has a
\* depth below maxDepth.
C20_CeilingJobFetchedNotExpanded ==
  /\ \A w \in Workers :
       wpc[w] \in {"links", "append", "add", "send"} => wjob[w].depth + 1 < maxDepth
  /\ \A w \in Workers :
       (wpc[w] \in {"recv", "exit"} /\ wjob[w] # NoJob)
         => wjob[w].url \in fetchedOK \cup fetchFailed
  /\ maxDepth >= 1 =>
       /\ \A i \in 1..Len(jobs) : jobs[i].depth < maxDepth
       /\ \A w \in Workers : wjob[w].depth < maxDepth

\* C20 witness: with maxDepth = 2 the page /1 of the chain, a job of depth 1, was
\* fetched successfully and its link /2 was never admitted.
C20_Witness ==
  /\ returned /\ scenario = "chain" /\ maxDepth = 2
  /\ "http://a/1" \in fetchedOK
  /\ "http://a/2" \notin visited
  /\ scannedCount = 2

\* the scheduling assumed for the shutdown: a goroutine that can take its step
\* (the closer returning from tasks.Wait() and closing the channel, a worker ending
\* its range over the closed and empty channel, the caller returning from
\* workers.Wait()) eventually takes it
Fairness ==
  /\ \A w \in 1..MaxWorkers : WF_vars(w \in Workers /\ WorkerExit(w))
  /\ WF_vars(CloserWait)
  /\ WF_vars(CloserClose)
  /\ WF_vars(Return)

FairSpec == Spec /\ Fairness

\* C19: under fair scheduling, whenever the tasks counter is zero the closer
\* eventually closes the jobs channel, after which every worker eventually leaves
\* its receive loop, after which buildSitemap eventually returns finalURLs.
C19_ZeroLeadsToReturn ==
  /\ (tasks = 0) ~> jobsClosed
  /\ jobsClosed ~> (\A w \in Workers : wpc[w] = "exit")
  /\ (\A w \in Workers : wpc[w] = "exit") ~> (returned /\ result = finalURLs)

\* C19 witness: after a crawl of several pages the counter is zero, the channel is
\* closed, every worker has left its loop and buildSitemap has returned.
C19_Witness ==
  /\ returned /\ tasks = 0 /\ jobsClosed
  /\ \A w \in Workers : wpc[w] = "exit"
  /\ result = finalURLs /\ Len(result) >= 3

\* the positions of the nodes of a tree: the sequences of child indices that lead
\* from the root to a node, and the node at a position
RECURSIVE PathsOf(_)
PathsOf(n) ==
  {<<>>} \cup UNION {{<<i>> \o q : q \in PathsOf(n.kids[i])} : i \in 1..Len(n.kids)}

RECURSIVE NodeAt(_, _)
NodeAt(n, p) == IF p = <<>> THEN n ELSE NodeAt(n.kids[Head(p)], Tail(p))

\* position p comes before position q in document order
RECURSIVE PathBefore(_, _)
PathBefore(p, q) ==
  IF p = <<>> THEN q # <<>>
  ELSE IF q = <<>> THEN FALSE
  ELSE IF Head(p) # Head(q) THEN Head(p) < Head(q)
  ELSE PathBefore(Tail(p), Tail(q))

IsAnchorElement(n) == n.type = "element" /\ n.data = "a"

\* the <a> elements the depth-first search finds: those not below another <a>
FoundAnchors(root) ==
  {p \in PathsOf(root) :
     /\ IsAnchorElement(NodeAt(root, p))
     /\ \A k \in 0..(Len(p) - 1) : ~IsAnchorElement(NodeAt(root, SubSeq(p, 1, k)))}

RankIn(P, p) == 1 + Cardinality({q \in P : PathBefore(q, p)})

\* the value of the href attribute of a node, "" when it has none
HrefAttribute(n) ==
  IF \E i \in 1..Len(n.attr) : n.attr[i].key = "href"
  THEN n.attr[FirstOf({i \in 1..Len(n.attr) : n.attr[i].key = "href"})].val
  ELSE ""

\* C13: for every document that is read, link.Parse returns a nil error and one
\* Link per <a> element found by the depth-first search, in document order, whose
\* Href is the value of the element's href attribute ("" when it is missing or
\* empty); a document whose only <a> is text inside a comment yields no Link.
C13_OneLinkPerAnchorInOrder ==
  (parsePc = "returned" /\ ~doc.readErr) =>
    /\ parseOut.err = "nil"
    /\ Len(parseOut.links.elems) = Cardinality(FoundAnchors(doc.root))
    /\ \A p \in FoundAnchors(doc.root) :
         parseOut.links.elems[RankIn(FoundAnchors(doc.root), p)].Href
           = HrefAttribute(NodeAt(doc.root, p))
    /\ (\A p \in PathsOf(doc.root) : NodeAt(doc.root, p).type \in {"comment", "document"}
          \/ (NodeAt(doc.root, p).type = "element"
                /\ NodeAt(doc.root, p).data \in {"html", "head", "body"}))
         => parseOut.links.elems = <<>>

\* C13 witness: link.Parse has returned for a document whose body is an <a>
\* without href followed by a div that holds an <a> with an href.
C13_Witness ==
  /\ parsePc = "returned" /\ ~doc.readErr
  /\ Len(parseOut.links.elems) = 2
  /\ parseOut.links.elems[1].Href = ""
  /\ parseOut.links.elems[2].Href = "https://example.com/page2"

\* the document has no <a> element
NoAnchor(root) == \A p \in PathsOf(root) : ~IsAnchorElement(NodeAt(root, p))

\* C14: for every document without an <a> element outside comments, the empty
\* input included, link.Parse returns a nil error and a result that is deeply
\* equal to the empty list []link.Link{}, not the nil slice.
C14_NoLinksIsEmptyList ==
  (parsePc = "returned" /\ ~doc.readErr /\ NoAnchor(doc.root)) =>
    /\ parseOut.err = "nil"
    /\ DeepEqual(parseOut.links, EmptySlice)

\* resolveURL has returned for an http or https base
ResolvedOnHTTPBase ==
  /\ resPc \in {"returned", "skipped", "kept"}
  /\ getBaseURL(resBase).ok /\ getBaseURL(resBase).scheme \in {"http", "https"}

\* C15: for every http(s) base, resolveURL returns the same string for two hrefs
\* that differ only in their fragment, and no non-empty result holds a fragment.
C15_FragmentInsensitive ==
  ResolvedOnHTTPBase =>
    /\ Contains(resHref, "#") =>
         \A f \in HrefFragments \ {""} :
           resolveURL(getBaseURL(resBase), CutBefore(resHref, "#") \o f) = resAbs
    /\ resAbs # "" => ~Contains(resAbs, "#")

\* the href is empty, begins with #, or begins, in any letter case, with mailto:,
\* javascript:, tel: or data:
NonCrawlableHref(h) ==
  \/ h = ""
  \/ HasPrefix(h, "#")
  \/ \E p \in {"mailto:", "javascript:", "tel:", "data:"} : HasPrefix(ToLower(h), p)

\* C16: for every base, the nil base included, resolveURL returns "" for an empty
\* href, an href beginning with # and an href that begins, in any letter case, with
\* mailto:, javascript:, tel: or data:; the loop over the links skips such an href
\* before any filter, admission or job creation.
C16_NonCrawlableHrefAbsent ==
  (resPc \in {"returned", "skipped", "kept"} /\ NonCrawlableHref(resHref)) =>
    /\ resAbs = ""
    /\ resPc # "kept"

\* C16 witness: the link loop has skipped the href MailTo:x on a base that parses.
C16_Witness ==
  /\ resPc = "skipped" /\ resHref = "MailTo:x" /\ resAbs = ""
  /\ getBaseURL(resBase).ok

\* C21: the step in which the fetch of a worker's job fails leaves visited,
\* finalURLs and the jobs channel unchanged, lowers tasks by exactly one, puts the
\* worker back at its receive, and leaves every other worker, the seed, the closer
\* and the caller where they are.
C21_FailedFetchFrame ==
  [][\A w \in Workers :
       (wpc[w] = "fetch" /\ wjob[w].url \notin fetchFailed /\ wjob[w].url \in fetchFailed')
         => /\ visited' = visited /\ finalURLs' = finalURLs /\ jobs' = jobs
            /\ tasks' = tasks - 1
            /\ wpc'[w] = "recv"
            /\ ~panicked' /\ jobsClosed' = jobsClosed
            /\ <<seedPc, closerPc, mainPc, result, err>>' = <<seedPc, closerPc, mainPc, result, err>>
            /\ \A v \in Workers \ {w} :
                 <<wpc[v], wjob[v], wlinks[v], wi[v], wabs[v]>>'
                   = <<wpc[v], wjob[v], wlinks[v], wi[v], wabs[v]>>]_vars

\* C21 witness: a worker is back at its receive after the fetch of its job failed,
\* a further job waits in the channel, and another worker is on its job.
C21_Witness ==
  \E w \in Workers :
    /\ wpc[w] = "recv" /\ wjob[w].url \in fetchFailed
    /\ jobs # <<>>
    /\ \E v \in Workers \ {w} : Busy(v)

\* the href has a ':' before its first '/' (anywhere, when it has no '/')
ColonBeforeSlash(h) == Contains(CutBefore(h, "/"), ":")

\* C23: on an http(s) base, resolveURL rejects an href as a foreign scheme only
\* when a ':' occurs before its first '/' and it does not start with http: or
\* https:; a non-empty href that does not begin with # and has no ':' before its
\* first '/', such as /wiki/Talk:Go or /p?t=1:2, is resolved to a non-empty URL.
C23_ColonAfterSlashResolves ==
  (ResolvedOnHTTPBase /\ resHref # "" /\ ~HasPrefix(resHref, "#")
     /\ ~ColonBeforeSlash(resHref))
    => resAbs # ""

\* the first position of u in seq
PosIn(seq, u) == FirstOf({i \in 1..Len(seq) : seq[i] = u})

\* finalURLs lists its URLs in the order in which they were stored in visited
InAdmissionOrder ==
  \A i, j \in 1..Len(finalURLs) :
    i < j => PosIn(admitOrder, finalURLs[i]) < PosIn(admitOrder, finalURLs[j])

\* a URL is in finalURLs before its job is counted and sent
AppendedBeforeSend ==
  /\ \A i \in 1..Len(jobs) : jobs[i].url \in SetOf(finalURLs)
  /\ \A w \in Workers : wpc[w] \in {"add", "send"} => wabs[w] \in SetOf(finalURLs)

\* C24: finalURLs is append-only and in admission order: startURL is its first
\* element from the initial state on, every step keeps the list as a prefix of the
\* new list, its URLs are in the order in which they were admitted (stored in
\* visited), and a URL is appended before the job for it is sent.
C24_AppendOnlyAdmissionOrder ==
  /\ [](finalURLs # <<>> /\ finalURLs[1] = startURL)
  /\ [][/\ Len(finalURLs') >= Len(finalURLs)
        /\ SubSeq(finalURLs', 1, Len(finalURLs)) = finalURLs]_vars
  /\ []AppendedBeforeSend
  /\ []InAdmissionOrder

\* C25: queuedCount is never negative; when buildSitemap returns, every URL of
\* finalURLs has had exactly one job and exactly one fetch attempt, scannedCount is
\* the length of finalURLs, addedCount is that length minus one, and queuedCount
\* is zero.
C25_CountersAtReturn ==
  /\ queuedCount >= 0
  /\ fetchedOK \cap fetchFailed = {}
  /\ returned =>
       /\ \A u \in SetOf(finalURLs) : u \in DOMAIN jobCount /\ jobCount[u] = 1
       /\ fetchedOK \cup fetchFailed = SetOf(finalURLs)
       /\ scannedCount = Cardinality(fetchedOK \cup fetchFailed)
       /\ scannedCount = Len(finalURLs)
       /\ addedCount = Len(finalURLs) - 1
       /\ queuedCount = 0

\* C25 witness: buildSitemap has returned four URLs crawled by two workers, one of
\* them with a failed fetch.
C25_Witness ==
  /\ returned /\ numWorkers = 2
  /\ Len(finalURLs) = 4 /\ scannedCount = 4 /\ addedCount = 3 /\ queuedCount = 0
  /\ fetchFailed # {}

\* the set of URLs the crawl returns when the jobs are handled one after the other
\* in the order of their creation
SequentialResult(sc, start, md) == Within(sc, start, md - 1)

\* C26: for a fixed site graph, fixed fetch outcomes (here: every fetch succeeds),
\* fixed maxDepth and fixed numWorkers, the set of URLs buildSitemap returns is the
\* same in every interleaving of the workers, hence the set of the interleaving
\* that handles the jobs one after the other.
C26_ReturnedSetDetermined ==
  (returned /\ scenario \in {"chain", "cycle", "diamond", "fan", "tree"}
     /\ fetchFailed = {})
    => SetOf(result) = SequentialResult(scenario, startURL, maxDepth)

\* the page a URL was admitted from, and the number of links from startURL to the
\* URL along these pages
ParentOf(u) == CHOOSE p \in visited : <<u, p>> \in parent

RECURSIVE DiscoveryDepth(_)
DiscoveryDepth(u) ==
  IF \A pr \in parent : pr[1] # u THEN 0 ELSE 1 + DiscoveryDepth(ParentOf(u))

\* for each site graph of the model: the URLs within k links of its start URL, and
\* the links (target, page) from a page within MaxDepthBound links of the start URL
\* to a URL of the host of the start URL
WithinOf ==
  [sc \in Scenarios |-> [k \in 0..MaxDepthBound |-> Within(sc, StartOf(sc), k)]]

SameHostLinksOf ==
  [sc \in Scenarios |->
     UNION {{<<c, p>> : c \in {x \in Succs(sc, p, SiteResponse(sc, p)) :
                                  EqualFold(Parse(x).host, Parse(StartOf(sc)).host)}} :
            p \in WithinOf[sc][MaxDepthBound]}]

\* the job was discovered along depth links of successfully fetched pages
RealJob(j) ==
  /\ j.depth = DiscoveryDepth(j.url)
  /\ j.depth = 0 => j.url = startURL
  /\ j.depth \in 0..MaxDepthBound
  /\ j.url \in WithinOf[scenario][j.depth]

\* every recorded admission follows a link of a successfully fetched page to a URL
\* of the host of startURL
RealLinks ==
  /\ \A pr \in parent : pr[2] \in fetchedOK
  /\ parent \subseteq SameHostLinksOf[scenario]

AwaitingAppend == {wabs[w] : w \in {x \in Workers : wpc[x] = "append"}}

\* C28: the URLs of finalURLs are keys of visited, and the keys of visited missing
\* from finalURLs are exactly those whose admitting worker is between
\* visited.LoadOrStore and the append under mu; when buildSitemap returns the two
\* sets are equal and finalURLs has as many elements as visited has keys.
C28_NoLostAppend ==
  /\ SetOf(finalURLs) \subseteq visited
  /\ visited \ SetOf(finalURLs) = AwaitingAppend
  /\ Len(finalURLs) + Cardinality(AwaitingAppend) = Cardinality(visited)
  /\ returned =>
       /\ SetOf(result) = visited
       /\ Len(result) = Cardinality(visited)

\* C28 witness: two workers are between LoadOrStore and the append at the same
\* time, each with its own URL.
C28_Witness ==
  /\ Cardinality(AwaitingAppend) = 2
  /\ Cardinality(visited) = Len(finalURLs) + 2

\* the scheduling assumed with the stats goroutine: as in Fairness, and the caller
\* closes stopStats once workers.Wait() has returned; nothing is assumed of the
\* stats goroutine itself, which the caller never waits for
FairStatsSpec == StatsSpec /\ Fairness /\ WF_vars(CloseStopStats)

\* the state of the crawl proper: every variable of buildSitemap but the stats
\* goroutine's own and the caller's position
crawlCore == <<jobs, jobsClosed, tasks, visited, finalURLs, stats, wpc, wjob, wlinks, wi,
               wabs, seedPc, closerPc, result, err, panicked>>

AllExited == \A w \in Workers : wpc[w] = "exit"

\* C22: the stats reporter is a passive observer. With showStats true or false:
\* stopStats is closed only after every worker has exited; a step of the reporter
\* (a tick, its return, the close of stopStats) changes no variable of the crawl,
\* so that a worker or the closer never meets a value the reporter wrote, and a
\* change of a counter is never a step of the reporter; the caller moves past
\* workers.Wait() only when every worker has exited; the list returned is
\* finalURLs; and once every worker has exited buildSitemap returns.
C22_StatsReporterPassive ==
  /\ [](stopStats = "closed" => AllExited)
  /\ [][reporter' # reporter => UNCHANGED crawlCore]_vars
  /\ [][mainPc' # mainPc => AllExited]_vars
  /\ [](returned => result = finalURLs /\ err = "nil")
  /\ AllExited ~> returned

\* C22 witness: a crawl with showStats that logged a snapshot, closed stopStats
\* after the workers' exit, saw the stats goroutine return, and returned the list
\* of several pages.
C22_Witness ==
  /\ showStats /\ returned /\ statsPc = "done" /\ stopStats = "closed"
  /\ printed > 0 /\ Len(result) >= 3 /\ AllExited


=============================================================================
